---- MODULE Spec2Model ----
(***************************************************************************)
(* ElasticityCalc of matcalc (src/matcalc/elasticity.py): calc() and       *)
(* _elastic_tensor_from_strains(), with the library calls they make        *)
(* (pymatgen's DeformedStructureSet, Strain.from_deformation,              *)
(* get_strain_state_dict, ElasticTensor.from_voigt/zeroed/k_vrh/g_vrh/     *)
(* y_mod and numpy's polyfit) modelled by what those calls compute.        *)
(*                                                                         *)
(* Units.  A strain component is an integer number of 1e-3, a stress       *)
(* component an integer number of 1e-10, so a fitted slope is a rational   *)
(* number of 1e-7 and the default tolerance 1e-7 is the rational 1.        *)
(* Floating point rounding is not modelled: every number is exact.         *)
(* A rational is a pair <<n, d>> in lowest terms with d > 0.               *)
(* Voigt vectors and the 6x6 matrix are indexed 0..5 as in the source.     *)
(***************************************************************************)
EXTENDS Integers, Sequences, FiniteSets, TLC

VARIABLES
    self,                   \* the ElasticityCalc object's fields (set by __init__)
    arg,                    \* the structure the caller passed to calc()
    structure,              \* calc()'s local `structure`
    pc,                     \* position in calc() / _elastic_tensor_from_strains()
    calls,                  \* collaborator calls made so far, in order
    deformed_structure_set, \* calc()'s DeformedStructureSet
    stresses,               \* list of sampled stresses (Voigt form)
    strains,                \* list of strains (Voigt form)
    eq_stress,              \* <<>> for None, else <<stress>>
    ss_dict,                \* strain state -> [strains, stresses]
    i, j,                   \* the fit loops' indices
    c_ij,                   \* 6x6 matrix of fitted slopes
    residuals_sum,          \* running sum of the fits' residuals
    ret,                    \* what _elastic_tensor_from_strains returned
    warned,                 \* warnings emitted so far, in order
    error,                  \* the exception that ended the call, if any
    result                  \* calc()'s returned dict, if any

vars == <<self, arg, structure, pc, calls, deformed_structure_set, stresses,
          strains, eq_stress, ss_dict, i, j, c_ij, residuals_sum, ret, warned,
          error, result>>

----------------------------------------------------------------------------
(* Bounds of the model. *)

\* longest amplitude list tried for norm_strains and for shear_strains
MaxLen == 3
\* fmax is the default (1, in units of 0.1) or MaxFmax
MaxFmax == 2
\* k_vrh and g_vrh range over 0..MaxModulus
MaxModulus == 2
\* at most this many non-canonical strains are added to a direct call's list
MaxExtra == 2

----------------------------------------------------------------------------
(* Exact rational arithmetic. *)

RECURSIVE GCD(_, _)
GCD(a, b) == IF b = 0 THEN a ELSE GCD(b, a % b)

Abs(x) == IF x < 0 THEN -x ELSE x

Rat(n, d) ==
    LET g == GCD(Abs(n), Abs(d))
        s == IF d < 0 THEN -1 ELSE 1
    IN  <<(s * n) \div g, (s * d) \div g>>

Zero == <<0, 1>>

RAdd(p, q) ==
    LET l == (p[2] \div GCD(p[2], q[2])) * q[2]
    IN  Rat(p[1] * (l \div p[2]) + q[1] * (l \div q[2]), l)

RAbs(p) == <<Abs(p[1]), p[2]>>

RLess(p, q) == p[1] * q[2] < q[1] * p[2]

Idx == 0..5

\* f[lo] + ... + f[hi]
RECURSIVE SumTo(_, _, _)
SumTo(f, lo, hi) == IF lo > hi THEN 0 ELSE f[lo] + SumTo(f, lo + 1, hi)

SeqSum(s) == SumTo(s, 1, Len(s))

----------------------------------------------------------------------------
(* The collaborators. *)

NoError == [type |-> "None", what |-> "", missing |-> {}]

EvaluatorFailure(what) == [type |-> "EvaluatorFailure", what |-> what, missing |-> {}]

\* The structure RelaxCalc(...).calc(s)["final_structure"] hands back.
Relaxed(s) == [name |-> s.name, relaxed |-> TRUE]

ZeroVec == [k \in Idx |-> 0]

\* Voigt index of the tensor index (r, c): xx, yy, zz, yz, xz, xy.
VoigtIndex(r, c) == IF r = c THEN r ELSE 6 - r - c

\* Strain.from_index_amount(ind, amount) in Voigt form: the symmetric tensor
\* with `amount` at ind and its transpose; an off-diagonal Voigt component is
\* twice the tensor's.
StrainOf(ind, amount) ==
    [k \in Idx |-> IF k = VoigtIndex(ind[1], ind[2])
                   THEN (IF ind[1] = ind[2] THEN amount ELSE 2 * amount)
                   ELSE 0]

\* Strain.from_deformation(deformation): a deformation is kept as the
\* (index, amount) it was generated from (get_deformation_matrix and
\* from_deformation are exact inverses of each other in exact arithmetic).
Strain_from_deformation(d) == StrainOf(d.ind, d.amount)

NormInds == << <<0, 0>>, <<1, 1>>, <<2, 2>> >>
ShearInds == << <<0, 1>>, <<0, 2>>, <<1, 2>> >>

\* The deformations of one family: for ind in inds: for amount in amounts.
DeformationsOf(inds, amounts) ==
    [k \in 1..(Len(inds) * Len(amounts)) |->
        [ind |-> inds[((k - 1) \div Len(amounts)) + 1],
         amount |-> amounts[((k - 1) % Len(amounts)) + 1]]]

\* DeformedStructureSet(structure, norm_strains, shear_strains): normal modes
\* first, then shear modes; one deformed structure per deformation.
DeformedStructureSet(s, norm, shear) ==
    LET defs == DeformationsOf(NormInds, norm) \o DeformationsOf(ShearInds, shear)
    IN  [deformations |-> defs,
         deformed_structures |-> [k \in 1..Len(defs) |->
                                     [base |-> s, strain |-> Strain_from_deformation(defs[k])]]]

NoSet == [deformations |-> <<>>, deformed_structures |-> <<>>]

\* Residual stress of an undeformed structure: an unrelaxed one is under
\* pressure, a relaxed one is stress free.
BaseStress(s) == [k \in Idx |-> IF ~s.relaxed /\ k < 3 THEN 2 ELSE 0]

\* Response of stress component k to strain component m of value x under
\* the calculator c.  "linear": stress = M . strain for a cubic M.
\* "rough": a nonlinear, non-symmetric response with weak couplings.
Response(c, m, k, x) ==
    IF c = "linear"
    THEN (IF m = k THEN (IF m < 3 THEN 3 ELSE 2)
          ELSE IF m < 3 /\ k < 3 THEN 1 ELSE 0) * x
    ELSE IF m = k THEN 2 * x + ((x * x) \div 10)
    ELSE IF k = (m + 1) % 6 THEN (IF x > 0 THEN 1 ELSE IF x < 0 THEN -1 ELSE 0)
    ELSE IF k = (m + 5) % 6 THEN x
    ELSE 0

\* atoms.get_stress(voigt=False) of a deformed structure, in Voigt form.
get_stress(c, ds) ==
    [k \in Idx |-> BaseStress(ds.base)[k]
                   + SumTo([m \in Idx |-> Response(c, m, k, ds.strain[m])], 0, 5)]

Calculators == {"linear", "rough"}

\* Amplitude lists: the prefixes of the default (0.001, 0.003, 0.005, 0.01)
\* and of a list with a negative and a repeated amplitude.
DefaultStrains == <<1, 3, 5, 10>>
OtherStrains == <<-5, 5, 5, 10>>

Min(a, b) == IF a < b THEN a ELSE b

AmpLists ==
    { SubSeq(b, 1, n) : b \in {DefaultStrains, OtherStrains},
                        n \in 1..Min(MaxLen, Len(DefaultStrains)) }

----------------------------------------------------------------------------
(* Grouping: pymatgen's get_strain_state_dict as elasticity.py calls it. *)

\* tuple(np.nonzero(vstrain)[0]): the components of a strain that are not 0.
Pattern(v) == {k \in Idx : v[k] # 0}

MinOf(S) == CHOOSE x \in S : \A y \in S : x <= y

\* Variant of StrainState: the row is divided by the magnitude of that
\* component, which keeps the row's sign.
StrainState_signed(v) ==
    LET ind == Pattern(v)
        least == MinOf({Abs(v[k]) : k \in ind})
    IN  [k \in Idx |-> v[k] \div least]

\* The strain state of a row: the row divided by its nonzero component of
\* least magnitude (the first such, as np.argmin picks).  The lists tried
\* here keep that quotient integral.
StrainState(v) ==
    LET ind == Pattern(v)
        least == MinOf({Abs(v[k]) : k \in ind})
        at == MinOf({k \in ind : Abs(v[k]) = least})
    IN  [k \in Idx |-> v[k] \div v[at]]

\* The canonical strain states: tuple(ss) for ss in np.eye(6).
strain_states == [m \in Idx |-> [k \in Idx |-> IF k = m THEN 1 ELSE 0]]

CanonicalStates == {strain_states[m] : m \in Idx}

\* The indices (in list order) of the rows whose pattern is ind.
RECURSIVE RowsOf(_, _, _)
RowsOf(vs, ind, n) ==
    IF n > Len(vs) THEN <<>>
    ELSE (IF Pattern(vs[n]) = ind THEN <<n>> ELSE <<>>) \o RowsOf(vs, ind, n + 1)

\* Insert row r into rows, which is sorted by component col of the strain.
RECURSIVE InsertRow(_, _, _)
InsertRow(rows, r, col) ==
    IF rows = <<>> THEN <<r>>
    ELSE IF r.strain[col] < rows[1].strain[col] THEN <<r>> \o rows
    ELSE <<rows[1]>> \o InsertRow(Tail(rows), r, col)

RECURSIVE SortRows(_, _)
SortRows(rows, col) ==
    IF rows = <<>> THEN <<>>
    ELSE InsertRow(SortRows(Tail(rows), col), rows[1], col)

\* One mode's entry: its rows, the zero-strain row (veq_stress) appended
\* when add_eq, sorted by the strain's first nonzero component.
ModeEntry(vstrains, vstresses, ind, veq, add_eq) ==
    LET at == RowsOf(vstrains, ind, 1)
        rows == [n \in 1..Len(at) |-> [strain |-> vstrains[at[n]], stress |-> vstresses[at[n]]]]
        all == IF add_eq THEN Append(rows, [strain |-> ZeroVec, stress |-> veq]) ELSE rows
        sorted == SortRows(all, MinOf(ind))
    IN  [strains |-> [n \in 1..Len(sorted) |-> sorted[n].strain],
         stresses |-> [n \in 1..Len(sorted) |-> sorted[n].stress]]

\* The key of a mode: the strain state of its last row in list order.
ModeKey(vstrains, ind) ==
    LET at == RowsOf(vstrains, ind, 1) IN StrainState(vstrains[at[Len(at)]])

\* find_eq_stress(strains, stresses) for a list that holds no zero strain
\* (the only lists tried): no equilibrium state is found, and the zero
\* stress is returned with a warning.
find_eq_stress(vstrains, vstresses) == ZeroVec

\* Variant of veq_stress: the eq_stress passed in is not used.
veq_stress_ignored(vstrains, vstresses, eq) == find_eq_stress(vstrains, vstresses)

\* veq_stress: Stress(eq_stress).voigt when eq_stress is given, else
\* find_eq_stress(strains, stresses).voigt.
veq_stress(vstrains, vstresses, eq) ==
    IF eq # <<>> THEN eq[1] ELSE find_eq_stress(vstrains, vstresses)

get_strain_state_dict(vstrains, vstresses, eq, add_eq) ==
    LET independent == {Pattern(vstrains[n]) : n \in 1..Len(vstrains)}
        veq == IF add_eq THEN veq_stress(vstrains, vstresses, eq) ELSE ZeroVec
        keys == {ModeKey(vstrains, ind) : ind \in independent}
    IN  [key \in keys |-> ModeEntry(vstrains, vstresses, Pattern(key), veq, add_eq)]

NoDict == [key \in {} |-> 0]

----------------------------------------------------------------------------
(* Fitting: np.polyfit(x, y, 1, full=True). *)

Column(rows, k) == [n \in 1..Len(rows) |-> rows[n][k]]

\* Variant of polyfit: the line is forced through the origin.
polyfit_through_origin(x, y) ==
    LET n == Len(x)
        sxx == SeqSum([k \in 1..n |-> x[k] * x[k]])
        sxy == SeqSum([k \in 1..n |-> x[k] * y[k]])
        syy == SeqSum([k \in 1..n |-> y[k] * y[k]])
    IN  [coef |-> <<Rat(sxy, sxx), Zero>>,
         resids |-> IF n > 2 /\ (\E k \in 1..n : x[k] # x[1])
                    THEN <<Rat(sxx * syy - sxy * sxy, sxx)>> ELSE <<>>,
         rank |-> 1]

\* fit[0] is (slope, intercept); fit[1] is the residuals array of lstsq,
\* which is empty when the rank is below 2 or there are at most 2 points.
\* A rank-1 system (all x equal) gets lstsq's minimum-norm solution on the
\* column-scaled matrix: slope ybar / (2 x), intercept ybar / 2.
polyfit(x, y) ==
    LET n == Len(x)
        sx == SeqSum(x)
        sy == SeqSum(y)
        sxx == n * SeqSum([k \in 1..n |-> x[k] * x[k]]) - sx * sx
        sxy == n * SeqSum([k \in 1..n |-> x[k] * y[k]]) - sx * sy
        syy == n * SeqSum([k \in 1..n |-> y[k] * y[k]]) - sy * sy
        rank == IF \A k \in 1..n : x[k] = x[1] THEN 1 ELSE 2
    IN  IF rank = 2
        THEN [coef |-> <<Rat(sxy, sxx), Rat(sy * sxx - sxy * sx, n * sxx)>>,
              resids |-> IF n > 2 THEN <<Rat(sxx * syy - sxy * sxy, n * sxx)>> ELSE <<>>,
              rank |-> 2]
        ELSE [coef |-> <<Rat(sy, 2 * n * x[1]), Rat(sy, 2 * n)>>,
              resids |-> <<>>,
              rank |-> 1]

\* The fit of stress component k against strain component m over the
\* entry of canonical state m.
FitOf(d, m, k) ==
    polyfit(Column(d[strain_states[m]].strains, m), Column(d[strain_states[m]].stresses, k))

ZeroMatrix == [m \in Idx |-> [k \in Idx |-> Zero]]

----------------------------------------------------------------------------
(* Assembly: ElasticTensor.from_voigt(c_ij).zeroed(tol). *)

Idx3 == 0..2

TensorIdx == Idx3 \X Idx3 \X Idx3 \X Idx3

\* The tolerance 1e-7 (the default of tol), in slope units.
Tol == <<1, 1>>

\* ElasticTensor.__new__ warns when the tensor breaks a Voigt symmetry by
\* 1e-4 or more.
VoigtSymTol == <<1000, 1>>

\* Tensor.from_voigt: every tensor index takes the entry of its Voigt index
\* (an elastic tensor's Voigt scale is all ones).
from_voigt(v) ==
    [ix \in TensorIdx |-> v[VoigtIndex(ix[1], ix[2])][VoigtIndex(ix[3], ix[4])]]

\* Variant of zeroed: entries of magnitude tol become 0 as well.
zeroed_inclusive(t, tol) ==
    [ix \in DOMAIN t |-> IF ~RLess(tol, RAbs(t[ix])) THEN Zero ELSE t[ix]]

\* Tensor.zeroed(tol): entries of magnitude below tol become 0.
zeroed(t, tol) ==
    [ix \in DOMAIN t |-> IF RLess(RAbs(t[ix]), tol) THEN Zero ELSE t[ix]]

\* The tensor index the Voigt property reads for a Voigt index.
TensorIndexOf == <<  <<0, 0>>, <<1, 1>>, <<2, 2>>, <<2, 1>>, <<2, 0>>, <<1, 0>> >>

\* Tensor.voigt: the 6x6 matrix of a rank-4 tensor.
voigt(t) ==
    [m \in Idx |-> [k \in Idx |->
        t[<<TensorIndexOf[m + 1][1], TensorIndexOf[m + 1][2],
            TensorIndexOf[k + 1][1], TensorIndexOf[k + 1][2]>>]]]

\* Whether ElasticTensor.__new__ warns: obj - transpose(obj) < tol fails
\* somewhere (the minor symmetries hold by construction).
BreaksVoigtSymmetry(v) ==
    \E m \in Idx, k \in Idx :
        ~RLess(RAdd(v[m][k], <<-(v[k][m][1]), v[k][m][2]>>), VoigtSymTol)

----------------------------------------------------------------------------
(* Moduli: ElasticTensor.k_vrh, g_vrh and y_mod. *)

\* A number m * 10^e with neither the numerator nor the denominator of m
\* divisible by 10 (0 is 0 * 10^0).
RECURSIVE Sci(_, _)
Sci(m, e) ==
    IF m[1] = 0 THEN [mant |-> Zero, exp10 |-> 0, nan |-> FALSE]
    ELSE IF m[1] % 10 = 0 THEN Sci(<<m[1] \div 10, m[2]>>, e + 1)
    ELSE IF m[2] % 10 = 0 THEN Sci(<<m[1], m[2] \div 10>>, e - 1)
    ELSE [mant |-> m, exp10 |-> e, nan |-> FALSE]

NaN == [mant |-> Zero, exp10 |-> 0, nan |-> TRUE]

\* ElasticTensor.y_mod: 9.0e9 * k_vrh * g_vrh / (3 * k_vrh + g_vrh).
\* Both moduli are >= 0 here, so the denominator is 0 only for 0 / 0.
y_mod(k_vrh, g_vrh) ==
    IF 3 * k_vrh + g_vrh = 0 THEN NaN
    ELSE Sci(Rat(9 * k_vrh * g_vrh, 3 * k_vrh + g_vrh), 9)

\* The values k_vrh and g_vrh may take: both are functions of the tensor
\* through its inverse, which is not computed here.
Moduli == 0..MaxModulus

----------------------------------------------------------------------------
(* State. *)

\* No tensor (yet).
NoTensor == <<>>

NoRet == [returned |-> FALSE, elastic_tensor |-> NoTensor, residuals_sum |-> Zero]

NoResult ==
    [returned |-> FALSE, elastic_tensor |-> NoTensor, shear_modulus_vrh |-> 0,
     bulk_modulus_vrh |-> 0, youngs_modulus |-> NaN, residuals_sum |-> Zero,
     structure |-> [name |-> "", relaxed |-> FALSE]]

\* ElasticityCalc.__init__: the fields a call reads.
Configs ==
    [calculator : Calculators, norm_strains : AmpLists, shear_strains : AmpLists,
     fmax : {1, MaxFmax}, relax_structure : BOOLEAN, use_equilibrium : BOOLEAN]

\* The structure handed to calc(): not relaxed.
InputStructure == [name |-> "S0", relaxed |-> FALSE]

\* The locals of a call that has not started.
Fresh ==
    /\ calls = <<>>
    /\ deformed_structure_set = NoSet
    /\ ss_dict = NoDict
    /\ i = 0
    /\ j = 0
    /\ c_ij = ZeroMatrix
    /\ residuals_sum = Zero
    /\ ret = NoRet
    /\ warned = <<>>
    /\ error = NoError
    /\ result = NoResult

\* A calculator object and a call of calc(structure) about to run.
Init ==
    /\ self \in Configs
    /\ arg = InputStructure
    /\ structure = arg
    /\ pc = "relax"
    /\ stresses = <<>>
    /\ strains = <<>>
    /\ eq_stress = <<>>
    /\ Fresh

\* A collaborator call as logged: what was called, on which structure, and
\* whether the call raised.
Call(op, fmax, on, raised) == [op |-> op, fmax |-> fmax, on |-> on, raised |-> raised]

Undeformed(s) == [base |-> s, strain |-> ZeroVec]

----------------------------------------------------------------------------
(* calc(): relaxation, deformation and stress sampling. *)

\* RelaxCalc(self.calculator, fmax=self.fmax).calc(structure), which returns
\* the relaxed structure or raises.
Relax ==
    /\ pc = "relax"
    /\ \/ /\ self.relax_structure
          /\ calls' = Append(calls, Call("relax", self.fmax, Undeformed(structure), FALSE))
          /\ structure' = Relaxed(structure)
          /\ pc' = "deform"
          /\ UNCHANGED error
       \/ /\ self.relax_structure
          /\ calls' = Append(calls, Call("relax", self.fmax, Undeformed(structure), TRUE))
          /\ error' = EvaluatorFailure("relax")
          /\ pc' = "failed"
          /\ UNCHANGED structure
       \/ /\ ~self.relax_structure
          /\ pc' = "deform"
          /\ UNCHANGED <<calls, structure, error>>
    /\ UNCHANGED <<self, arg, deformed_structure_set, stresses, strains, eq_stress,
                   ss_dict, i, j, c_ij, residuals_sum, ret, warned, result>>

\* Variant of Deform: the caller's structure is deformed, relaxed or not.
DeformCallerStructure ==
    /\ pc = "deform"
    /\ deformed_structure_set' =
           DeformedStructureSet(arg, self.norm_strains, self.shear_strains)
    /\ stresses' = <<>>
    /\ pc' = "sample"
    /\ UNCHANGED <<self, arg, structure, calls, strains, eq_stress, ss_dict, i, j,
                   c_ij, residuals_sum, ret, warned, error, result>>

Deform ==
    /\ pc = "deform"
    /\ deformed_structure_set' =
           DeformedStructureSet(structure, self.norm_strains, self.shear_strains)
    /\ stresses' = <<>>
    /\ pc' = "sample"
    /\ UNCHANGED <<self, arg, structure, calls, strains, eq_stress, ss_dict, i, j,
                   c_ij, residuals_sum, ret, warned, error, result>>

\* Variant of Sample: the loop runs over the deformed structures last to first.
SampleReversed ==
    /\ pc = "sample"
    /\ Len(stresses) < Len(deformed_structure_set.deformed_structures)
    /\ LET deformed_structure ==
               deformed_structure_set.deformed_structures[
                   Len(deformed_structure_set.deformed_structures) - Len(stresses)]
       IN  \/ /\ calls' = Append(calls, Call("get_stress", 0, deformed_structure, FALSE))
              /\ stresses' = Append(stresses, get_stress(self.calculator, deformed_structure))
              /\ UNCHANGED <<pc, error>>
           \/ /\ calls' = Append(calls, Call("get_stress", 0, deformed_structure, TRUE))
              /\ error' = EvaluatorFailure("get_stress")
              /\ pc' = "failed"
              /\ UNCHANGED stresses
    /\ UNCHANGED <<self, arg, structure, deformed_structure_set, strains, eq_stress,
                   ss_dict, i, j, c_ij, residuals_sum, ret, warned, result>>

\* Variant of Sample: a get_stress that raises is caught and the same
\* structure is tried again.
SampleRetrying ==
    /\ pc = "sample"
    /\ Len(stresses) < Len(deformed_structure_set.deformed_structures)
    /\ LET deformed_structure ==
               deformed_structure_set.deformed_structures[Len(stresses) + 1]
       IN  \/ /\ calls' = Append(calls, Call("get_stress", 0, deformed_structure, FALSE))
              /\ stresses' = Append(stresses, get_stress(self.calculator, deformed_structure))
              /\ UNCHANGED <<pc, error>>
           \/ /\ Len(calls) < 2 \/ ~calls[Len(calls)].raised
              /\ calls' = Append(calls, Call("get_stress", 0, deformed_structure, TRUE))
              /\ UNCHANGED <<pc, error, stresses>>
    /\ UNCHANGED <<self, arg, structure, deformed_structure_set, strains, eq_stress,
                   ss_dict, i, j, c_ij, residuals_sum, ret, warned, result>>

\* One pass of the loop over the deformed structures: get_stress returns
\* the stress, which is appended, or raises.
Sample ==
    /\ pc = "sample"
    /\ Len(stresses) < Len(deformed_structure_set.deformed_structures)
    /\ LET deformed_structure ==
               deformed_structure_set.deformed_structures[Len(stresses) + 1]
       IN  \/ /\ calls' = Append(calls, Call("get_stress", 0, deformed_structure, FALSE))
              /\ stresses' = Append(stresses, get_stress(self.calculator, deformed_structure))
              /\ UNCHANGED <<pc, error>>
           \/ /\ calls' = Append(calls, Call("get_stress", 0, deformed_structure, TRUE))
              /\ error' = EvaluatorFailure("get_stress")
              /\ pc' = "failed"
              /\ UNCHANGED stresses
    /\ UNCHANGED <<self, arg, structure, deformed_structure_set, strains, eq_stress,
                   ss_dict, i, j, c_ij, residuals_sum, ret, warned, result>>

\* The loop is over: the strains are read off the deformations.
Strains ==
    /\ pc = "sample"
    /\ Len(stresses) = Len(deformed_structure_set.deformed_structures)
    /\ strains' = [k \in 1..Len(deformed_structure_set.deformations) |->
                      Strain_from_deformation(deformed_structure_set.deformations[k])]
    /\ pc' = "eq"
    /\ UNCHANGED <<self, arg, structure, calls, deformed_structure_set, stresses,
                   eq_stress, ss_dict, i, j, c_ij, residuals_sum, ret, warned, error,
                   result>>

\* The eq_stress argument: the base structure's stress when use_equilibrium,
\* None otherwise.
EqStress ==
    /\ pc = "eq"
    /\ \/ /\ self.use_equilibrium
          /\ calls' = Append(calls, Call("get_stress", 0, Undeformed(structure), FALSE))
          /\ eq_stress' = <<get_stress(self.calculator, Undeformed(structure))>>
          /\ pc' = "group"
          /\ UNCHANGED error
       \/ /\ self.use_equilibrium
          /\ calls' = Append(calls, Call("get_stress", 0, Undeformed(structure), TRUE))
          /\ error' = EvaluatorFailure("get_stress")
          /\ pc' = "failed"
          /\ UNCHANGED eq_stress
       \/ /\ ~self.use_equilibrium
          /\ eq_stress' = <<>>
          /\ pc' = "group"
          /\ UNCHANGED <<calls, error>>
    /\ UNCHANGED <<self, arg, structure, deformed_structure_set, stresses, strains,
                   ss_dict, i, j, c_ij, residuals_sum, ret, warned, result>>

----------------------------------------------------------------------------
(* _elastic_tensor_from_strains(strains, stresses, eq_stress). *)

NoEqWarning == "No eq state found, returning zero voigt stress"
ExtraWarning ==
    "Extra strain states in strain-stress pairs are neglected in independent strain fitting"
SymmetryWarning == "Input elastic tensor does not satisfy standard voigt symmetries"

Group ==
    /\ pc = "group"
    /\ ss_dict' = get_strain_state_dict(strains, stresses, eq_stress, self.use_equilibrium)
    /\ warned' = IF self.use_equilibrium /\ eq_stress = <<>>
                 THEN Append(warned, NoEqWarning) ELSE warned
    /\ pc' = "check"
    /\ UNCHANGED <<self, arg, structure, calls, deformed_structure_set, stresses,
                   strains, eq_stress, i, j, c_ij, residuals_sum, ret, error, result>>

\* The two tests on the keys of ss_dict.
Check ==
    /\ pc = "check"
    /\ \/ /\ ~(CanonicalStates \subseteq DOMAIN ss_dict)
          /\ error' = [type |-> "ValueError",
                       what |-> "Missing independent strain states",
                       missing |-> CanonicalStates \ DOMAIN ss_dict]
          /\ pc' = "failed"
          /\ UNCHANGED <<warned, c_ij, residuals_sum, i, j>>
       \/ /\ CanonicalStates \subseteq DOMAIN ss_dict
          /\ warned' = IF Cardinality(DOMAIN ss_dict \ CanonicalStates) > 0
                       THEN Append(warned, ExtraWarning) ELSE warned
          /\ c_ij' = ZeroMatrix
          /\ residuals_sum' = Zero
          /\ i' = 0
          /\ j' = 0
          /\ pc' = "fit"
          /\ UNCHANGED error
    /\ UNCHANGED <<self, arg, structure, calls, deformed_structure_set, stresses,
                   strains, eq_stress, ss_dict, ret, result>>

\* One pass of the inner loop: the fit, the slope stored, the residual
\* added; fit[1][0] raises IndexError when the residuals array is empty.
Fit ==
    /\ pc = "fit"
    /\ i < 6
    /\ LET fit == FitOf(ss_dict, i, j)
       IN  /\ c_ij' = [c_ij EXCEPT ![i][j] = fit.coef[1]]
           /\ \/ /\ fit.resids = <<>>
                 /\ error' = [type |-> "IndexError",
                              what |-> "index 0 is out of bounds for axis 0 with size 0",
                              missing |-> {}]
                 /\ pc' = "failed"
                 /\ UNCHANGED <<residuals_sum, i, j>>
              \/ /\ fit.resids # <<>>
                 /\ residuals_sum' = RAdd(residuals_sum, fit.resids[1])
                 /\ i' = IF j = 5 THEN i + 1 ELSE i
                 /\ j' = IF j = 5 THEN 0 ELSE j + 1
                 /\ UNCHANGED <<pc, error>>
    /\ UNCHANGED <<self, arg, structure, calls, deformed_structure_set, stresses,
                   strains, eq_stress, ss_dict, ret, warned, result>>

\* c = ElasticTensor.from_voigt(c_ij); return c.zeroed(tol), residuals_sum.
Assemble ==
    /\ pc = "fit"
    /\ i = 6
    /\ ret' = [returned |-> TRUE,
               elastic_tensor |-> zeroed(from_voigt(c_ij), Tol),
               residuals_sum |-> residuals_sum]
    /\ warned' = IF BreaksVoigtSymmetry(c_ij)
                 THEN Append(warned, SymmetryWarning) ELSE warned
    /\ pc' = "return"
    /\ UNCHANGED <<self, arg, structure, calls, deformed_structure_set, stresses,
                   strains, eq_stress, ss_dict, i, j, c_ij, residuals_sum, error,
                   result>>

----------------------------------------------------------------------------
(* calc(): the result. *)

Return ==
    /\ pc = "return"
    /\ \E k_vrh \in Moduli, g_vrh \in Moduli :
           result' = [returned |-> TRUE,
                      elastic_tensor |-> ret.elastic_tensor,
                      shear_modulus_vrh |-> g_vrh,
                      bulk_modulus_vrh |-> k_vrh,
                      youngs_modulus |-> y_mod(k_vrh, g_vrh),
                      residuals_sum |-> ret.residuals_sum,
                      structure |-> structure]
    /\ pc' = "done"
    /\ UNCHANGED <<self, arg, structure, calls, deformed_structure_set, stresses,
                   strains, eq_stress, ss_dict, i, j, c_ij, residuals_sum, ret, warned,
                   error>>

Next ==
    \/ Relax
    \/ Deform
    \/ Sample
    \/ Strains
    \/ EqStress
    \/ Group
    \/ Check
    \/ Fit
    \/ Assemble
    \/ Return

Spec == Init /\ [][Next]_vars

----------------------------------------------------------------------------
(* _elastic_tensor_from_strains called on its own, with a list a caller  *)
(* put together: some canonical states left out, some strains that lie   *)
(* along no axis put in, eq_stress given or not.                         *)

\* Which canonical states a list samples.
PresentSets == {Idx, {3, 4, 5}, {0, 1, 2}, Idx \ {4}}

\* Strains along no single axis, for the amplitude a.
ExtraPool(a) ==
    << [k \in Idx |-> IF k \in {0, 1} THEN a ELSE 0],
       [k \in Idx |-> IF k = 2 THEN a ELSE IF k = 5 THEN 2 * a ELSE 0],
       [k \in Idx |-> IF k \in {0, 1} THEN 2 * a ELSE 0],
       [k \in Idx |-> IF k = 2 THEN 2 * a ELSE IF k = 5 THEN 2 * a ELSE 0] >>

IsPresent(v, present) == Pattern(v) \subseteq present

\* The enumerator's strains for amps, restricted to the states in present,
\* with n extra strains put first or last.
StrainList(amps, present, n, first) ==
    LET all == DeformedStructureSet(InputStructure, amps, amps).deformed_structures
        vs == [k \in 1..Len(all) |-> all[k].strain]
        kept == SelectSeq(vs, LAMBDA v : IsPresent(v, present))
        extra == SubSeq(ExtraPool(amps[1]), 1, Min(n, Len(ExtraPool(amps[1]))))
    IN  IF first THEN extra \o kept ELSE kept \o extra

InitFit ==
    /\ self \in {c \in Configs : /\ c.fmax = 1
                                 /\ ~c.relax_structure
                                 /\ c.shear_strains = c.norm_strains}
    /\ arg = InputStructure
    /\ structure = arg
    /\ pc = "group"
    /\ \E present \in PresentSets, n \in 0..MaxExtra, first \in BOOLEAN :
           strains = StrainList(self.norm_strains, present, n, first)
    /\ stresses = [k \in 1..Len(strains) |->
                      get_stress(self.calculator, [base |-> structure, strain |-> strains[k]])]
    /\ eq_stress \in {<<>>, <<get_stress(self.calculator, Undeformed(structure))>>}
    /\ Fresh

NextFit ==
    \/ Group
    \/ Check
    \/ Fit
    \/ Assemble

SpecFit == InitFit /\ [][NextFit]_vars

----------------------------------------------------------------------------
(* Properties of calc()'s use of its collaborators. *)

\* Positions of calc() after the sampling loop and the strain list.
Sampled == {"eq", "group", "check", "fit", "return", "done"}

\* Positions of _elastic_tensor_from_strains() after the grouping.
Grouped == {"check", "fit", "return", "done"}

\* The evaluator calls on deformed structures, in the order made.
StressCalls == SelectSeq(calls, LAMBDA c : c.op = "get_stress" /\ c.on.strain # ZeroVec)

\* The evaluator calls on the undeformed base structure.
EqCalls == SelectSeq(calls, LAMBDA c : c.op = "get_stress" /\ c.on.strain = ZeroVec)

RelaxCalls == SelectSeq(calls, LAMBDA c : c.op = "relax")

\* The structure calc() deforms: the relaxer's output when relax_structure,
\* the caller's structure otherwise.
Deformed == IF self.relax_structure THEN Relaxed(arg) ELSE arg

\* C3: the evaluator is called once per deformed structure, in the
\* enumerator's order (the k-th call is on the k-th deformed structure), the
\* k-th stress collected is the k-th structure's, whose strain is the k-th
\* strain; when the loop is over every structure has been evaluated and the
\* stress list is as long as the strain list.
C3_OneStressPerDeformation ==
    LET ds == deformed_structure_set.deformed_structures
        made == StressCalls
    IN  /\ Len(made) <= Len(ds)
        /\ \A k \in 1..Len(made) : made[k].on = ds[k]
        /\ Len(stresses) = Cardinality({k \in 1..Len(made) : ~made[k].raised})
        /\ \A k \in 1..Len(stresses) :
               /\ ~made[k].raised
               /\ stresses[k] = get_stress(self.calculator, ds[k])
        /\ pc \in Sampled =>
               /\ Len(made) = Len(ds)
               /\ Len(stresses) = Len(strains)
               /\ Len(strains) = 3 * Len(self.norm_strains) + 3 * Len(self.shear_strains)
               /\ \A k \in 1..Len(strains) :
                      /\ strains[k] = ds[k].strain
                      /\ strains[k] = Strain_from_deformation(deformed_structure_set.deformations[k])

\* A call that went through its sampling loop over several amplitudes per mode.
C3_Witness ==
    /\ pc = "group"
    /\ Len(self.norm_strains) > 1
    /\ Len(self.shear_strains) > 1
    /\ Len(stresses) = Len(StressCalls)
    /\ Len(stresses) > 6

\* C5: when the relaxer or the evaluator raises, on whatever structure, that
\* call is the last collaborator call made (no retry, no later structure),
\* calc() has ended with that very failure, nothing was grouped or fitted
\* and nothing is returned; and calc() ends with an evaluator failure only
\* when a collaborator raised.
C5_FailurePropagates ==
    /\ \A k \in 1..Len(calls) :
           calls[k].raised =>
               /\ k = Len(calls)
               /\ pc = "failed"
               /\ error = EvaluatorFailure(calls[k].op)
               /\ ss_dict = NoDict
               /\ c_ij = ZeroMatrix
               /\ ~ret.returned
               /\ ~result.returned
               /\ ~ENABLED Next
    /\ error.type = "EvaluatorFailure" => Len(calls) > 0 /\ calls[Len(calls)].raised

\* The evaluator raised on a deformed structure after some had succeeded.
C5_Witness ==
    /\ pc = "failed"
    /\ Len(stresses) > 1
    /\ Len(stresses) < Len(deformed_structure_set.deformed_structures)
    /\ calls[Len(calls)].raised
    /\ calls[Len(calls)].op = "get_stress"

\* C9: the relaxer is called iff relax_structure, once, with self.fmax, on
\* the caller's structure and before anything else (no deformed structure
\* exists before it); every deformed structure is a deformation of the
\* relaxer's output when relax_structure and of the caller's structure
\* otherwise, and that structure is the result's `structure`.
C9_RelaxFirst ==
    /\ pc = "relax" => calls = <<>> /\ deformed_structure_set = NoSet
    /\ pc # "relax" =>
           RelaxCalls = IF self.relax_structure
                        THEN <<calls[1]>>
                        ELSE <<>>
    /\ \A k \in 1..Len(RelaxCalls) :
           /\ RelaxCalls[k].fmax = self.fmax
           /\ RelaxCalls[k].on = Undeformed(arg)
    /\ \A k \in 1..Len(deformed_structure_set.deformed_structures) :
           deformed_structure_set.deformed_structures[k].base = Deformed
    /\ \A k \in 1..Len(StressCalls) : StressCalls[k].on.base = Deformed
    /\ result.returned => result.structure = Deformed

\* A result returned after a relaxation with a non-default fmax.
C9_Witness ==
    /\ result.returned
    /\ self.relax_structure
    /\ self.fmax # 1
    /\ result.structure # arg

\* A result returned without relaxation.
C9_WitnessUnrelaxed ==
    /\ result.returned
    /\ ~self.relax_structure
    /\ result.structure = arg

\* The rows of canonical state m's entry that have zero strain.
ZeroRows(m) ==
    LET e == ss_dict[strain_states[m]]
    IN  SelectSeq([n \in 1..Len(e.strains) |-> [strain |-> e.strains[n], stress |-> e.stresses[n]]],
                  LAMBDA r : r.strain = ZeroVec)

\* C4: the base structure's stress is evaluated at most once, never when
\* use_equilibrium is off and exactly once (before the grouping) when it is
\* on; once grouped, each of the 6 canonical states' entries holds exactly
\* one zero-strain pair, carrying that stress, when use_equilibrium is on,
\* and none when it is off.
C4_EquilibriumPair ==
    /\ Len(EqCalls) <= 1
    /\ ~self.use_equilibrium => Len(EqCalls) = 0
    /\ \A k \in 1..Len(EqCalls) : EqCalls[k].on = Undeformed(Deformed)
    /\ pc \in {"group"} \cup Grouped =>
           Len(EqCalls) = IF self.use_equilibrium THEN 1 ELSE 0
    /\ ss_dict # NoDict =>
           /\ Len(EqCalls) = IF self.use_equilibrium THEN 1 ELSE 0
           /\ \A m \in Idx :
                  /\ strain_states[m] \in DOMAIN ss_dict
                  /\ ZeroRows(m) =
                         IF self.use_equilibrium
                         THEN <<[strain |-> ZeroVec,
                                 stress |-> get_stress(self.calculator, Undeformed(Deformed))]>>
                         ELSE <<>>

\* Grouped with the equilibrium stress of a structure under pressure.
C4_Witness ==
    /\ pc = "check"
    /\ self.use_equilibrium
    /\ ~self.relax_structure
    /\ Len(EqCalls) = 1
    /\ eq_stress # <<ZeroVec>>
    /\ \A m \in Idx : Len(ZeroRows(m)) = 1

\* Grouped without it.
C4_WitnessOff ==
    /\ pc = "check"
    /\ ~self.use_equilibrium
    /\ \A m \in Idx : Len(ZeroRows(m)) = 0

----------------------------------------------------------------------------
(* Properties of the grouping, the fits and the assembly. *)

\* The canonical states no strain of the list lies along.
Absent ==
    {strain_states[m] : m \in {n \in Idx : \A k \in 1..Len(strains) : Pattern(strains[k]) # {n}}}

\* The positions of the list's strains that lie along no single axis.
ExtraRows == {k \in 1..Len(strains) : Cardinality(Pattern(strains[k])) > 1}

\* C1 as claimed: with canonical states absent the call fails with a
\* MissingStrainStatesError that names exactly the absent states, and
\* nothing is fitted or returned.
C1_MissingStatesError ==
    (pc \notin {"group", "check"} /\ Absent # {}) =>
        /\ pc = "failed"
        /\ error.type = "MissingStrainStatesError"
        /\ error.missing = Absent
        /\ c_ij = ZeroMatrix
        /\ ~ret.returned

\* C1 as the code has it: with canonical states absent the call fails with a
\* ValueError whose message names exactly the absent states, and nothing is
\* fitted or returned; with none absent it does not fail so.
C1_MissingStatesValueError ==
    /\ (pc \notin {"group", "check"} /\ Absent # {}) =>
           /\ pc = "failed"
           /\ error.type = "ValueError"
           /\ error.what = "Missing independent strain states"
           /\ error.missing = Absent
           /\ c_ij = ZeroMatrix
           /\ ~ret.returned
    /\ error.type = "ValueError" => Absent # {}

\* A list without any normal-mode strain: the 3 normal states are named.
C1_Witness ==
    /\ pc = "failed"
    /\ error.missing = {strain_states[0], strain_states[1], strain_states[2]}
    /\ Absent = error.missing
    /\ Len(strains) > 0

\* The number of pairs canonical state m's fits run over.
Points(m) == Len(ss_dict[strain_states[m]].strains)

SingleAmplitude == Len(self.norm_strains) = 1 /\ Len(self.shear_strains) = 1

\* C2: with one amplitude per mode every canonical state is fitted over 2
\* points with use_equilibrium and over 1 point without; without, the call
\* does not fail and returns residuals_sum 0.
C2_SinglePointFit ==
    (SingleAmplitude /\ ss_dict # NoDict) =>
        /\ \A m \in Idx : Points(m) = IF self.use_equilibrium THEN 2 ELSE 1
        /\ ~self.use_equilibrium =>
               /\ pc # "failed"
               /\ ret.returned => ret.residuals_sum = Zero
               /\ result.returned => result.residuals_sum = Zero

\* The strains and stresses of the list without the strains along no axis.
KeptStrains == SelectSeq(strains, LAMBDA v : Cardinality(Pattern(v)) = 1)

KeptStresses ==
    LET at == SelectSeq([k \in 1..Len(strains) |-> k], LAMBDA k : k \notin ExtraRows)
    IN  [n \in 1..Len(at) |-> stresses[at[n]]]

\* The whole of the 36 fits over a grouping d.
SlopesOf(d) == [m \in Idx |-> [k \in Idx |-> FitOf(d, m, k).coef[1]]]

\* The sum of a sequence of rationals.
RECURSIVE RSum(_)
RSum(s) == IF s = <<>> THEN Zero ELSE RAdd(s[1], RSum(Tail(s)))

\* The sum of f[<<m, k>>] over the pairs in S, row by row.
RSumOver(f, S) ==
    RSum([m \in 1..6 |->
             RSum([k \in 1..6 |-> IF <<m - 1, k - 1>> \in S THEN f[<<m - 1, k - 1>>] ELSE Zero])])

ResidualsOf(d) ==
    RSumOver([mk \in Idx \X Idx |-> FitOf(d, mk[1], mk[2]).resids[1]], Idx \X Idx)

\* C6: a list with all 6 canonical states and strains along no axis besides
\* gets the warning and the call completes, returning the tensor and the
\* residual sum of the list without those strains.
C6_ExtraStatesNeglected ==
    (pc \notin {"group", "check"} /\ Absent = {} /\ ExtraRows # {}) =>
        /\ ExtraWarning \in {warned[k] : k \in 1..Len(warned)}
        /\ pc # "failed"
        /\ ret.returned =>
               LET d == get_strain_state_dict(KeptStrains, KeptStresses, eq_stress,
                                              self.use_equilibrium)
               IN  /\ ret.elastic_tensor = zeroed(from_voigt(SlopesOf(d)), Tol)
                   /\ ret.residuals_sum = ResidualsOf(d)

\* C6 short of completion: the warning is given exactly when the list holds
\* strains along no axis, none of their pairs is in a canonical state's
\* entry, and what is returned is what the list without them gives.
C6_ExtraStatesFrame ==
    (pc \notin {"group", "check"} /\ Absent = {}) =>
        /\ (ExtraWarning \in {warned[k] : k \in 1..Len(warned)}) <=> ExtraRows # {}
        /\ \A m \in Idx : \A n \in 1..Points(m) :
               Pattern(ss_dict[strain_states[m]].strains[n]) \subseteq {m}
        /\ ret.returned =>
               LET d == get_strain_state_dict(KeptStrains, KeptStresses, eq_stress,
                                              self.use_equilibrium)
               IN  /\ ret.elastic_tensor = zeroed(from_voigt(SlopesOf(d)), Tol)
                   /\ ret.residuals_sum = ResidualsOf(d)

\* A completed call on a list with strains along no axis.
C6_FrameWitness ==
    /\ ret.returned
    /\ ExtraRows # {}
    /\ ret.residuals_sum # Zero

\* C7: youngs_modulus is 9 K G / (3 K + G) for the K and G of the same
\* result, with no further factor.
C7_YoungsModulus ==
    (result.returned /\ 3 * result.bulk_modulus_vrh + result.shear_modulus_vrh # 0) =>
        result.youngs_modulus =
            Sci(Rat(9 * result.bulk_modulus_vrh * result.shear_modulus_vrh,
                    3 * result.bulk_modulus_vrh + result.shear_modulus_vrh), 0)

\* What the code returns: that value times 1e9.
C7_YoungsModulusScaled ==
    (result.returned /\ 3 * result.bulk_modulus_vrh + result.shear_modulus_vrh # 0) =>
        result.youngs_modulus =
            Sci(Rat(9 * result.bulk_modulus_vrh * result.shear_modulus_vrh,
                    3 * result.bulk_modulus_vrh + result.shear_modulus_vrh), 9)

\* Whether the rational c is below the tolerance in magnitude.
BelowTol(c) == Abs(c[1]) * Tol[2] < Tol[1] * c[2]

\* C8: every entry of the returned tensor is 0 where the fitted slope is
\* below the tolerance in magnitude and the fitted slope itself elsewhere,
\* read as a 6x6 matrix or as the rank-4 tensor; nothing is symmetrized.
C8_ZeroingLaw ==
    result.returned =>
        /\ \A m \in Idx, k \in Idx :
               voigt(result.elastic_tensor)[m][k] =
                   IF BelowTol(c_ij[m][k]) THEN Zero ELSE c_ij[m][k]
        /\ \A ix \in TensorIdx :
               LET c == c_ij[VoigtIndex(ix[1], ix[2])][VoigtIndex(ix[3], ix[4])]
               IN  result.elastic_tensor[ix] = IF BelowTol(c) THEN Zero ELSE c

\* A returned tensor with a slope below the tolerance zeroed, a slope equal
\* to the tolerance kept, and two entries across the diagonal that differ.
C8_Witness ==
    /\ result.returned
    /\ \E m \in Idx, k \in Idx :
           /\ c_ij[m][k] # Zero
           /\ BelowTol(c_ij[m][k])
           /\ voigt(result.elastic_tensor)[m][k] = Zero
    /\ \E m \in Idx, k \in Idx :
           /\ c_ij[m][k] = Tol
           /\ voigt(result.elastic_tensor)[m][k] = Tol
    /\ \E m \in Idx, k \in Idx :
           voigt(result.elastic_tensor)[m][k] # voigt(result.elastic_tensor)[k][m]

\* The pairs of the list that lie along axis m, and the zero-strain pair
\* when use_equilibrium, as (strain component m, stress vector).
PairsAlong(m) ==
    LET at == SelectSeq([k \in 1..Len(strains) |-> k], LAMBDA k : Pattern(strains[k]) = {m})
        sampled == [n \in 1..Len(at) |-> [x |-> strains[at[n]][m], y |-> stresses[at[n]]]]
    IN  IF self.use_equilibrium
        THEN Append(sampled, [x |-> 0, y |-> IF eq_stress # <<>> THEN eq_stress[1] ELSE ZeroVec])
        ELSE sampled

\* For the slope b = p/q over the pairs ps of stress component k, with the
\* intercept the mean residual fixes: the residuals times n q.
ScaledResiduals(ps, k, b) ==
    LET n == Len(ps)
        sx == SeqSum([r \in 1..n |-> ps[r].x])
        sy == SeqSum([r \in 1..n |-> ps[r].y[k]])
    IN  [r \in 1..n |-> n * b[2] * ps[r].y[k] - (b[2] * sy - b[1] * sx) - n * b[1] * ps[r].x]

\* b is a least-squares slope: the residuals are orthogonal to x (they sum
\* to 0 by the choice of the intercept).
IsLeastSquaresSlope(ps, k, b) ==
    LET res == ScaledResiduals(ps, k, b)
    IN  /\ SeqSum(res) = 0
        /\ SeqSum([r \in 1..Len(ps) |-> ps[r].x * res[r]]) = 0

\* The residual sum of squares of that fit: for a least-squares line it is
\* the sum of residual times response.
SumOfSquares(ps, k, b) ==
    LET res == ScaledResiduals(ps, k, b)
    IN  Rat(SeqSum([r \in 1..Len(ps) |-> res[r] * ps[r].y[k]]), Len(ps) * b[2])

\* The fits made so far, and those whose residual has been added.
SlopesStored ==
    {mk \in Idx \X Idx : \/ mk[1] < i
                         \/ mk[1] = i /\ mk[2] < j
                         \/ mk[1] = i /\ mk[2] = j /\ error.type = "IndexError"}

ResidualsAdded == {mk \in Idx \X Idx : mk[1] < i \/ (mk[1] = i /\ mk[2] < j)}

\* C10: each slope stored in c_ij[m][k] is a least-squares slope of stress
\* component k against strain component m over exactly the list's pairs
\* along axis m (with the zero-strain pair when use_equilibrium), and
\* residuals_sum is the sum of those fits' residual sums of squares: of all
\* 36 when the tensor is returned.
C10_SlopesAndResiduals ==
    pc \in {"fit", "return", "failed"} =>
        /\ \A mk \in SlopesStored :
               IsLeastSquaresSlope(PairsAlong(mk[1]), mk[2], c_ij[mk[1]][mk[2]])
        /\ residuals_sum =
               RSumOver([mk \in ResidualsAdded |->
                            SumOfSquares(PairsAlong(mk[1]), mk[2], c_ij[mk[1]][mk[2]])],
                        ResidualsAdded)
        /\ ret.returned =>
               /\ Cardinality(ResidualsAdded) = 36
               /\ ret.residuals_sum = residuals_sum

\* All 36 fits done over a list that also holds strains along no axis, with
\* a nonzero residual sum and a nonzero intercept somewhere.
C10_Witness ==
    /\ ret.returned
    /\ ExtraRows # {}
    /\ ret.residuals_sum # Zero
    /\ ~self.use_equilibrium
    /\ Cardinality(ResidualsAdded) = 36

====
